---- MODULE Spec2Model ----
(***************************************************************************)
(* Model of the NMG excess-savings pipeline (src/load_nmg_smart.py).       *)
(*                                                                         *)
(* Tables are sequences of rows; a row is a function from column name to   *)
(* cell.  A nullable cell is <<>> (null / NaN) or <<v>> (the value v).     *)
(*                                                                         *)
(* Money is kept exact.  With L == Scale (the least common multiple of the *)
(* possible group sizes):                                                  *)
(*   gross_income          pounds                                          *)
(*   estimated_savings     pence              (pounds * rate in percent)   *)
(*   baseline_savings      pence * L          (a mean of estimated_savings)*)
(*   excess_savings        pence * L                                       *)
(*   avg_income            pounds * L                                      *)
(*   avg_savings           pence * L                                       *)
(*   avg_excess_savings    pence * L * L      (a mean of excess_savings)   *)
(*   cumulative_excess     pence * L * L                                   *)
(*   counterfactual_savings  a reduced fraction [num, den] of pence * L    *)
(***************************************************************************)
EXTENDS Integers, Sequences, FiniteSets, TLC

VARIABLES
    pc,                \* position of the run inside main()
    sheet_i,           \* index into year_sheets of the sheet the loop is at
    all_data,          \* load_and_clean_nmg: list of per-sheet frames
    warnings,          \* sheets reported with a cross (load failed)
    nmg,               \* the panel (nmg / nmg_clean / nmg_with_excess)
    baseline_savings,  \* calculate_excess_savings: the baseline scalar
    scale_report,      \* calculate_excess_savings: the national scaler's outcome
    yearly,            \* create_time_series: the yearly table
    df_pandas,         \* sum_income_sources: the frame passed in (mutable object)
    df_ret,            \* sum_income_sources: the frame returned
    stages,            \* the stages of the run, in the order in which they ran
    workbook,          \* the excel file as far as it has been read: per sheet of
                       \* year_sheets the table read_excel returns, null if it raises
    returned,          \* the (nmg, yearly) pairs that finished calls of main returned
    dash               \* the dashboard script: its inputs, its locals, how far it got

vars == <<pc, sheet_i, all_data, warnings, nmg, baseline_savings,
          scale_report, yearly, df_pandas, df_ret, stages, workbook, returned, dash>>

(***************************************************************************)
(* Bounds of the model.                                                    *)
(***************************************************************************)
\* rows of the whole workbook that the loader accepts
MaxRows == 3

\* rows of the whole workbook when the run is followed by a second run
TwiceMaxRows == 2

\* columns and rows of a frame handed to sum_income_sources on its own
AggMaxCols == 2

AggMaxRows == 2

\* sheets the workbook may contain (reading any other sheet raises)
WorkbookSheets ==
    {"2015", "2016", "2019", "2020", "2021", "2022", "March 2025",
     "September 2025"}

\* cells of a raw survey row: missing, or an amount in pounds
Cells == {<<>>, <<0>>, <<20000>>}

\* column names a raw frame may carry
AggColNames == <<"qincomefreev2_n_1", "QIncomeFreeV2_N_2", "qhousing", "qincomefreev2_n_3">>

(***************************************************************************)
(* Nullable cells and small helpers.                                       *)
(***************************************************************************)
NULL == <<>>

Some(v) == <<v>>

IsNull(x) == x = <<>>

Val(x) == x[1]

Range(s) == {s[i] : i \in DOMAIN s}

RECURSIVE SeqSum(_)
SeqSum(s) == IF s = <<>> THEN 0 ELSE Head(s) + SeqSum(Tail(s))

\* the sum of f over the index set S
RECURSIVE SumAt(_, _)
SumAt(f, S) ==
    IF S = {} THEN 0
    ELSE LET i == CHOOSE j \in S : TRUE IN f[i] + SumAt(f, S \ {i})

RECURSIVE Gcd(_, _)
Gcd(a, b) == IF b = 0 THEN a ELSE Gcd(b, a % b)

Abs(a) == IF a < 0 THEN -a ELSE a

\* the one element of a singleton set; in Only({e(v) : v \in {d}}) the value
\* d is computed once, however often e mentions v
Only(S) == CHOOSE v \in S : TRUE

\* a fraction in lowest terms with a positive denominator
Frac(num, den) ==
    LET g == Gcd(Abs(num), den)
    IN  [num |-> num \div g, den |-> den \div g]

RECURSIVE LcmUpTo(_)
LcmUpTo(n) == IF n <= 1 THEN 1 ELSE (LcmUpTo(n - 1) * n) \div Gcd(LcmUpTo(n - 1), n)

\* every group of rows has between 1 and MaxRows members, so a mean times
\* Scale is an integer
Scale == LcmUpTo(MaxRows)

\* the non-null values of a column, in row order (drop_nulls)
DropNulls(rows, col) ==
    LET keep == SelectSeq(rows, LAMBDA r : ~IsNull(r[col]))
    IN  [i \in DOMAIN keep |-> Val(keep[i][col])]

\* mean of the non-null values of a sequence of numbers, times k; null when
\* there is none (polars mean of an empty or all-null column is null)
MeanTimes(k, vals) ==
    IF vals = <<>> THEN NULL ELSE Some((k * SeqSum(vals)) \div Len(vals))

(***************************************************************************)
(* sum_income_sources (src/load_nmg_smart.py 20-33)                        *)
(***************************************************************************)
\* 'qincomefreev2_n_' in c.lower(), over the column names of the model
IsIncomeCol(c) ==
    c \in {"qincomefreev2_n_1", "QIncomeFreeV2_N_2", "qincomefreev2_n_3"}

\* fillna(0)
FillNa0(x) == IF IsNull(x) THEN 0 ELSE Val(x)

\* df[income_cols].fillna(0).sum(axis=1) for one row
RowSum(row, income_cols) ==
    SeqSum([i \in DOMAIN income_cols |-> FillNa0(row[income_cols[i]])])

\* df[income_cols].isna().all(axis=1) for one row
AllMissing(row, income_cols) ==
    \A i \in DOMAIN income_cols : IsNull(row[income_cols[i]])

\* variant that leaves out the all-missing reset of line 28-29
TotalIncomeZeroFilled(row, income_cols) ==
    IF income_cols # <<>> THEN Some(RowSum(row, income_cols)) ELSE NULL

\* variant that writes the empty sum 0 when the frame has no income column
TotalIncomeNoSourceZero(row, income_cols) ==
    IF income_cols # <<>>
    THEN IF AllMissing(row, income_cols) THEN NULL
         ELSE Some(RowSum(row, income_cols))
    ELSE Some(0)

\* the cell written to total_hh_income for one row
TotalIncome(row, income_cols) ==
    IF income_cols # <<>>
    THEN IF AllMissing(row, income_cols) THEN NULL
         ELSE Some(RowSum(row, income_cols))
    ELSE NULL

\* assigning a column inserts it at the end unless it exists already
AddColumn(columns, c) == IF c \in Range(columns) THEN columns ELSE Append(columns, c)

sum_income_sources(df) ==
    LET income_cols == SelectSeq(df.columns, IsIncomeCol)
    IN  [columns |-> AddColumn(df.columns, "total_hh_income"),
         rows |-> [i \in DOMAIN df.rows |->
                     ("total_hh_income" :> TotalIncome(df.rows[i], income_cols))
                     @@ df.rows[i]]]

(***************************************************************************)
(* The stages of a run, as the code orders them.  Each action appends the  *)
(* stages it runs, in the order of its statements.                         *)
(***************************************************************************)
\* the loop body: sum_income_sources is called on the sheet's own table
\* (line 62), before the tables are united
LoadStages == <<"Income Aggregator">>

\* lines 73-112: pd.concat and the canonical columns, the flags, qcut
CleanStages == <<"Reconciler", "Regime Classifier", "Decile Assigner">>

\* variant in which the scaling is done first
ExcessStagesScalerFirst == <<"National Scaler", "Savings Estimator", "Baseline/Excess">>

\* calculate_excess_savings (called at line 115): the proxy (136-143), the
\* baseline and the excess (145-169), the national scaling (186-209)
ExcessStages == <<"Savings Estimator", "Baseline/Excess", "National Scaler">>

\* create_time_series (called at line 272, after load_and_clean_nmg returned)
TimeSeriesStages == <<"Time-Series Aggregator">>

(***************************************************************************)
(* load_and_clean_nmg: the sheet loop (src/load_nmg_smart.py 43-71)        *)
(***************************************************************************)
year_sheets ==
    <<"2011", "2012", "2013", "2014", "2015", "2016", "2017", "2018", "2019",
      "2020", "2021", "2022", "2023", "2024", "March 2025", "September 2025">>

\* int(sheet) for the sheets whose name is a year
IntOfSheet(sheet) ==
    CASE sheet = "2011" -> 2011 [] sheet = "2012" -> 2012 [] sheet = "2013" -> 2013
      [] sheet = "2014" -> 2014 [] sheet = "2015" -> 2015 [] sheet = "2016" -> 2016
      [] sheet = "2017" -> 2017 [] sheet = "2018" -> 2018 [] sheet = "2019" -> 2019
      [] sheet = "2020" -> 2020 [] sheet = "2021" -> 2021 [] sheet = "2022" -> 2022
      [] sheet = "2023" -> 2023 [] sheet = "2024" -> 2024

\* variant that files the second sub-wave of 2025 under the following year
SurveyYearSubWavesApart(sheet) ==
    IF sheet = "March 2025" THEN 2025
    ELSE IF sheet = "September 2025" THEN 2026 ELSE IntOfSheet(sheet)

\* lines 54-59: the survey_year attached to the rows of a sheet
SurveyYearOfSheet(sheet) ==
    IF sheet \in {"March 2025", "September 2025"} THEN 2025 ELSE IntOfSheet(sheet)

\* raw tables pd.read_excel may return for a sheet: with a household
\* identifier and one income-source column, with the identifier alone, or
\* with neither
SheetColumnSets ==
    { <<>>, <<"subsid">>, <<"subsid", "qincomefreev2_n_1">> }

RawRow(columns, i, cell) ==
    [c \in Range(columns) |-> IF c = "subsid" THEN Some(i) ELSE cell]

RawTables(columns, n) ==
    IF \E c \in Range(columns) : IsIncomeCol(c)
    THEN { [columns |-> columns, rows |-> [i \in 1..n |-> RawRow(columns, i, f[i])]] :
             f \in [1..n -> Cells] }
    ELSE { [columns |-> columns, rows |-> [i \in 1..n |-> RawRow(columns, i, NULL)]] }

\* lines 54-59: df['survey_year'] = ..., df['survey_wave'] = sheet
WithSurveyInfo(df, sheet) ==
    [columns |-> AddColumn(AddColumn(df.columns, "survey_year"), "survey_wave"),
     rows |-> [i \in DOMAIN df.rows |->
                 ("survey_year" :> SurveyYearOfSheet(sheet)) @@
                 ("survey_wave" :> sheet) @@ df.rows[i]]]

RECURSIVE TotalRows(_)
TotalRows(frames) ==
    IF frames = <<>> THEN 0 ELSE Len(Head(frames).rows) + TotalRows(Tail(frames))

\* pd.read_excel(excel_file, sheet_name=sheet) for the sheet the loop is at:
\* a sheet read before reads the same again, a sheet read for the first time
\* shows its content
ReadReturns(result) ==
    IF sheet_i <= Len(workbook)
    THEN workbook[sheet_i] = result /\ UNCHANGED workbook
    ELSE workbook' = Append(workbook, result)

\* one iteration of the loop whose read_excel succeeds (lines 51-68), in a
\* workbook of at most max_rows rows
LoadSheet(max_rows) ==
    /\ pc = "load"
    /\ sheet_i <= Len(year_sheets)
    /\ year_sheets[sheet_i] \in WorkbookSheets
    /\ \E columns \in SheetColumnSets :
       \E n \in 1..(max_rows - TotalRows(all_data)) :
       \E raw \in RawTables(columns, n) :
       \E df \in {WithSurveyInfo(raw, year_sheets[sheet_i])} :
          /\ ReadReturns(Some(raw))
          /\ all_data' = Append(all_data, sum_income_sources(df))
    /\ sheet_i' = sheet_i + 1
    /\ stages' = stages \o LoadStages
    /\ UNCHANGED <<pc, warnings, nmg, baseline_savings, scale_report, yearly,
                   df_pandas, df_ret, returned, dash>>

LoadSheetOk == LoadSheet(MaxRows)

\* one iteration of the loop whose body raises (lines 70-71): the sheet is
\* reported and skipped
LoadSheetFail ==
    /\ pc = "load"
    /\ sheet_i <= Len(year_sheets)
    /\ ReadReturns(NULL)
    /\ warnings' = Append(warnings, year_sheets[sheet_i])
    /\ sheet_i' = sheet_i + 1
    /\ UNCHANGED <<pc, all_data, nmg, baseline_savings, scale_report, yearly,
                   df_pandas, df_ret, stages, returned, dash>>

(***************************************************************************)
(* load_and_clean_nmg: union and canonical columns (lines 73-92)           *)
(***************************************************************************)
RECURSIVE ConcatRows(_)
ConcatRows(frames) ==
    IF frames = <<>> THEN <<>> ELSE Head(frames).rows \o ConcatRows(Tail(frames))

\* pd.concat: a column is present when some frame has it
ConcatColumns(frames) == UNION {Range(frames[i].columns) : i \in DOMAIN frames}

\* a cell of the concatenated frame: NaN where the row's frame had no such column
CellOf(row, c) == IF c \in DOMAIN row THEN row[c] ELSE NULL

\* pd.concat, pl.from_pandas, select(core_cols present), rename
Canonical(frames) ==
    LET rows == ConcatRows(frames)
    IN  [i \in DOMAIN rows |->
           [household_id |-> CellOf(rows[i], "subsid"),
            survey_year  |-> rows[i]["survey_year"],
            survey_wave  |-> rows[i]["survey_wave"],
            gross_income |-> CellOf(rows[i], "total_hh_income")]]

\* pd.concat raises on an empty list; rename raises when no loaded sheet had
\* a 'subsid' column, since select dropped it from the frame
ReconcileRaises(frames) ==
    \/ frames = <<>>
    \/ "subsid" \notin ConcatColumns(frames)

(***************************************************************************)
(* load_and_clean_nmg: derived flags (lines 94-105)                        *)
(***************************************************************************)
\* variant whose upper limit is one year late
PandemicPeriodLong(y) == IF y >= 2020 /\ y <= 2022 THEN 1 ELSE 0

pandemic_period(y) == IF y >= 2020 /\ y <= 2021 THEN 1 ELSE 0

post_2020(y) == IF y >= 2020 THEN 1 ELSE 0

pre_pandemic(y) == IF y < 2020 THEN 1 ELSE 0

WithFlags(rows) ==
    [i \in DOMAIN rows |->
       [pandemic_period |-> pandemic_period(rows[i].survey_year),
        post_2020       |-> post_2020(rows[i].survey_year),
        pre_pandemic    |-> pre_pandemic(rows[i].survey_year)] @@ rows[i]]

(***************************************************************************)
(* load_and_clean_nmg: income deciles (lines 107-112)                      *)
(* polars qcut(10, labels, allow_duplicates=True): breaks are the linearly *)
(* interpolated quantiles 0.1 .. 0.9 of the non-null values, bins are      *)
(* right-closed, a repeated break is dropped together with its label.      *)
(* Breaks are kept times 10 so that they stay integers.                    *)
(***************************************************************************)
\* the j-th smallest element (j from 0) of a non-empty sequence of numbers
KthSmallest(vals, j) ==
    CHOOSE x \in Range(vals) :
        /\ Cardinality({i \in DOMAIN vals : vals[i] < x}) <= j
        /\ j < Cardinality({i \in DOMAIN vals : vals[i] <= x})

\* variant with equal-width bins: ten times the point k/10 of the way from
\* the smallest to the largest value
EqualWidthBreak10(vals, k) ==
    LET lo == KthSmallest(vals, 0)
        hi == KthSmallest(vals, Len(vals) - 1)
    IN  10 * lo + k * (hi - lo)

\* ten times the quantile k/10 with linear interpolation
QuantileBreak10(vals, k) ==
    LET h  == (Len(vals) - 1) * k
        lo == KthSmallest(vals, h \div 10)
        hi == IF h % 10 = 0 THEN lo ELSE KthSmallest(vals, (h \div 10) + 1)
    IN  10 * lo + (h % 10) * (hi - lo)

qbreaks(vals) == [k \in 1..9 |-> QuantileBreak10(vals, k)]

\* labels that survive the removal of repeated breaks: the first, the last,
\* and every label whose break differs from the one before it
KeptLabels(q) ==
    SelectSeq([j \in 1..10 |-> j], LAMBDA j : j = 1 \/ j = 10 \/ q[j] # q[j - 1])

\* cut: the bin of x is the number of distinct breaks strictly below x
DecileOf(x, q) ==
    KeptLabels(q)[Cardinality({b \in Range(q) : b < 10 * x}) + 1]

\* allow_duplicates=True (line 110)
allow_duplicates == TRUE

\* qcut raises on repeated breaks unless allow_duplicates is set
QcutRaises(vals) ==
    /\ ~allow_duplicates
    /\ vals # <<>>
    /\ \E q \in {qbreaks(vals)} : \E j \in 2..9 : q[j] = q[j - 1]

\* variant that cuts every survey wave by the breaks of its own incomes
WithDecilesPerWave(rows) ==
    [i \in DOMAIN rows |->
       [income_decile |->
          IF IsNull(rows[i].gross_income) THEN NULL
          ELSE Some(DecileOf(Val(rows[i].gross_income),
                             qbreaks(DropNulls(
                                SelectSeq(rows, LAMBDA r :
                                    r.survey_wave = rows[i].survey_wave),
                                "gross_income"))))] @@ rows[i]]

\* a column of nulls has no breaks and stays null
WithDeciles(rows) ==
    LET vals == DropNulls(rows, "gross_income")
    IN  Only({ [i \in DOMAIN rows |->
                  [income_decile |->
                     IF IsNull(rows[i].gross_income) THEN NULL
                     ELSE Some(DecileOf(Val(rows[i].gross_income), q))] @@ rows[i]] :
               q \in {IF vals = <<>> THEN <<>> ELSE qbreaks(vals)} })

\* lines 73-112: union of the loaded sheets, canonical columns, flags, deciles;
\* the function goes on with calculate_excess_savings (line 115)
CleanNmg ==
    /\ pc = "load"
    /\ sheet_i > Len(year_sheets)
    /\ ~ReconcileRaises(all_data)
    /\ nmg' = WithDeciles(WithFlags(Canonical(all_data)))
    /\ pc' = "excess"
    /\ stages' = stages \o CleanStages
    /\ UNCHANGED <<sheet_i, all_data, warnings, baseline_savings, scale_report,
                   yearly, df_pandas, df_ret, workbook, returned, dash>>

\* the uncaught exception of line 73 or line 89 ends the run
CleanNmgRaises ==
    /\ pc = "load"
    /\ sheet_i > Len(year_sheets)
    /\ ReconcileRaises(all_data)
    /\ pc' = "failed"
    /\ UNCHANGED <<sheet_i, all_data, warnings, nmg, baseline_savings, scale_report,
                   yearly, df_pandas, df_ret, stages, workbook, returned, dash>>

(***************************************************************************)
(* calculate_excess_savings: the savings proxy (lines 136-143)             *)
(***************************************************************************)
\* the three rates, in percent
RatePandemic == 18

RatePost == 10

RatePre == 8

\* arithmetic on a null operand yields null
MulNull(cell, k) == IF IsNull(cell) THEN NULL ELSE Some(Val(cell) * k)

\* variant with the two when-branches in the other order
EstimatedSavingsPostFirst(row) ==
    IF row.post_2020 = 1 THEN MulNull(row.gross_income, RatePost)
    ELSE IF row.pandemic_period = 1 THEN MulNull(row.gross_income, RatePandemic)
    ELSE MulNull(row.gross_income, RatePre)

\* variant that fills a missing income with zero before applying the rate
EstimatedSavingsZeroFilled(row) ==
    IF row.pandemic_period = 1 THEN Some(FillNa0(row.gross_income) * RatePandemic)
    ELSE IF row.post_2020 = 1 THEN Some(FillNa0(row.gross_income) * RatePost)
    ELSE Some(FillNa0(row.gross_income) * RatePre)

\* when(pandemic_period == 1).then(..).when(post_2020 == 1).then(..).otherwise(..)
EstimatedSavings(row) ==
    IF row.pandemic_period = 1 THEN MulNull(row.gross_income, RatePandemic)
    ELSE IF row.post_2020 = 1 THEN MulNull(row.gross_income, RatePost)
    ELSE MulNull(row.gross_income, RatePre)

WithEstimated(rows) ==
    [i \in DOMAIN rows |->
       [estimated_savings |-> EstimatedSavings(rows[i])] @@ rows[i]]

(***************************************************************************)
(* calculate_excess_savings: baseline (lines 145-162)                      *)
(***************************************************************************)
\* the fixed fallback of 2000 pounds
DefaultBaseline == 2000

DefaultBaselineScaled == DefaultBaseline * 100 * Scale

\* filter(2016 <= survey_year < 2020).select(estimated_savings.drop_nulls())
WindowSavings(rows) ==
    DropNulls(SelectSeq(rows, LAMBDA r : r.survey_year >= 2016 /\ r.survey_year < 2020),
              "estimated_savings")

\* filter(survey_year < 2020).select(estimated_savings.drop_nulls())
PrePandemicSavings(rows) ==
    DropNulls(SelectSeq(rows, LAMBDA r : r.survey_year < 2020), "estimated_savings")

\* baseline_mean if baseline_mean is not None else 2000
OrDefault(mean) == IF IsNull(mean) THEN DefaultBaselineScaled ELSE Val(mean)

\* variant whose first test counts the rows of the window, null or not
BaselineCountingNulls(rows) ==
    IF SelectSeq(rows, LAMBDA r : r.survey_year >= 2016 /\ r.survey_year < 2020) # <<>>
    THEN OrDefault(MeanTimes(Scale, WindowSavings(rows)))
    ELSE OrDefault(MeanTimes(Scale, PrePandemicSavings(rows)))

\* variant that always takes the fixed default
BaselineDefaultOnly(rows) == DefaultBaselineScaled

Baseline(rows) ==
    IF Len(WindowSavings(rows)) > 0
    THEN OrDefault(MeanTimes(Scale, WindowSavings(rows)))
    ELSE OrDefault(IF Len(PrePandemicSavings(rows)) > 0
                   THEN MeanTimes(Scale, PrePandemicSavings(rows))
                   ELSE NULL)

(***************************************************************************)
(* calculate_excess_savings: excess (lines 164-169)                        *)
(***************************************************************************)
\* clip(lower_bound=0); a null stays null
ClipLower0(cell) == IF IsNull(cell) THEN NULL ELSE Some(IF Val(cell) < 0 THEN 0 ELSE Val(cell))

\* estimated_savings - baseline_savings, in pence * Scale
MinusBaseline(cell, baseline) ==
    IF IsNull(cell) THEN NULL ELSE Some(Scale * Val(cell) - baseline)

\* variant without the clip
ExcessUnclipped(rows, baseline) ==
    [i \in DOMAIN rows |->
       [excess_savings |-> MinusBaseline(rows[i].estimated_savings, baseline)]
       @@ rows[i]]

\* variant that takes the baseline of each row from the rows of its own year
ExcessPerYearBaseline(rows, baseline) ==
    [i \in DOMAIN rows |->
       [excess_savings |->
          ClipLower0(MinusBaseline(
              rows[i].estimated_savings,
              OrDefault(MeanTimes(Scale,
                  DropNulls(SelectSeq(rows,
                      LAMBDA r : r.survey_year = rows[i].survey_year),
                      "estimated_savings")))))]
       @@ rows[i]]

WithExcess(rows, baseline) ==
    [i \in DOMAIN rows |->
       [excess_savings |->
          ClipLower0(MinusBaseline(rows[i].estimated_savings, baseline))]
       @@ rows[i]]

(***************************************************************************)
(* calculate_excess_savings: national scaling (lines 186-211)              *)
(***************************************************************************)
\* filter(survey_year >= 2020).select(excess_savings.drop_nulls())
PostExcess(rows) ==
    DropNulls(SelectSeq(rows, LAMBDA r : r.survey_year >= 2020), "excess_savings")

\* total_households_uk = 28_000_000, counted in millions of households
HouseholdsMillions == 28

\* the Bank of England estimate 200e9 pounds, in millions of pounds
BenchmarkMillions == 200000

\* Python's a / b: a quotient whose den is 0 stands for the ZeroDivisionError
\* that a zero divisor raises
Ratio(a, b) == IF b = 0 THEN [num |-> 0, den |-> 0] ELSE Frac(a, b)

\* variant without the n_sample > 0 test of line 199
ScaleReportUnguarded(rows) ==
    LET total_excess_sample == SeqSum(PostExcess(rows))
        n_sample == Len(PostExcess(rows))
        avg      == Ratio(total_excess_sample, n_sample)
        total_uk == Ratio(avg.num * HouseholdsMillions, avg.den * 100 * Scale)
    IN  [status              |-> "estimated",
         total_excess_sample |-> total_excess_sample,
         n_sample            |-> n_sample,
         avg_excess_per_hh   |-> Some(avg),
         total_excess_uk     |-> Some(total_uk),
         scale_factor        |-> Some(IF total_uk.num > 0
                                      THEN Ratio(BenchmarkMillions * total_uk.den,
                                                 total_uk.num)
                                      ELSE Frac(1, 1))]

\* lines 186-209.  avg_excess_per_hh is a fraction of pence * Scale,
\* total_excess_uk a fraction of millions of pounds, scale_factor a fraction;
\* a null field is a name the code never binds
ScaleReport(rows) ==
    Only({ LET total_excess_sample == SeqSum(post)
               n_sample == Len(post)
               avg      == Ratio(total_excess_sample, n_sample)
               total_uk == Ratio(avg.num * HouseholdsMillions, avg.den * 100 * Scale)
           IN  IF n_sample > 0
               THEN [status              |-> "estimated",
                     total_excess_sample |-> total_excess_sample,
                     n_sample            |-> n_sample,
                     avg_excess_per_hh   |-> Some(avg),
                     total_excess_uk     |-> Some(total_uk),
                     scale_factor        |-> Some(IF total_uk.num > 0
                                                  THEN Ratio(BenchmarkMillions * total_uk.den,
                                                             total_uk.num)
                                                  ELSE Frac(1, 1))]
               ELSE [status              |-> "not enough data",
                     total_excess_sample |-> total_excess_sample,
                     n_sample            |-> n_sample,
                     avg_excess_per_hh   |-> NULL,
                     total_excess_uk     |-> NULL,
                     scale_factor        |-> NULL] :
           post \in {PostExcess(rows)} })

\* the whole of calculate_excess_savings: proxy, baseline, excess, scaling
CalculateExcessSavings ==
    /\ pc = "excess"
    /\ \E estimated \in {WithEstimated(nmg)} :
       \E baseline \in {Baseline(estimated)} :
          /\ baseline_savings' = Some(baseline)
          /\ nmg' = WithExcess(estimated, baseline)
    /\ scale_report' = Some(ScaleReport(nmg'))
    /\ pc' = "time_series"
    /\ stages' = stages \o ExcessStages
    /\ UNCHANGED <<sheet_i, all_data, warnings, yearly, df_pandas, df_ret, workbook,
                   returned, dash>>

(***************************************************************************)
(* create_time_series (lines 214-260)                                      *)
(***************************************************************************)
RECURSIVE SortedSeq(_)
SortedSeq(S) ==
    IF S = {} THEN <<>>
    ELSE LET m == CHOOSE x \in S : \A y \in S : x <= y
         IN  <<m>> \o SortedSeq(S \ {m})

RowsOfYear(rows, y) == SelectSeq(rows, LAMBDA r : r.survey_year = y)

\* variant that groups by survey_wave, one row per loaded sheet
YearlyAggByWave(rows) ==
    LET sheets == SortedSeq({k \in DOMAIN year_sheets :
                               \E i \in DOMAIN rows : rows[i].survey_wave = year_sheets[k]})
    IN  [k \in DOMAIN sheets |->
           LET g == SelectSeq(rows, LAMBDA r : r.survey_wave = year_sheets[sheets[k]])
           IN  [survey_year        |-> g[1].survey_year,
                avg_income         |-> MeanTimes(Scale, DropNulls(g, "gross_income")),
                avg_savings        |-> MeanTimes(Scale, DropNulls(g, "estimated_savings")),
                avg_excess_savings |-> MeanTimes(Scale, DropNulls(g, "excess_savings")),
                n_households       |-> Len(g),
                n_with_income      |-> Len(DropNulls(g, "gross_income"))]]

\* mean of a column over every row, a null counting as zero
MeanZeroFilled(g, col) ==
    Some((Scale * SeqSum([i \in DOMAIN g |-> FillNa0(g[i][col])])) \div Len(g))

\* variant whose means run over every row of the year, nulls counted as zero
YearlyAggZeroFilled(rows) ==
    LET years == SortedSeq({rows[i].survey_year : i \in DOMAIN rows})
    IN  [k \in DOMAIN years |->
           LET g == RowsOfYear(rows, years[k])
           IN  [survey_year        |-> years[k],
                avg_income         |-> MeanZeroFilled(g, "gross_income"),
                avg_savings        |-> MeanZeroFilled(g, "estimated_savings"),
                avg_excess_savings |-> MeanZeroFilled(g, "excess_savings"),
                n_households       |-> Len(g),
                n_with_income      |-> Len(DropNulls(g, "gross_income"))]]

\* group_by('survey_year').agg([...]).sort('survey_year') (lines 216-223)
YearlyAgg(rows) ==
    Only({ [k \in DOMAIN years |->
              Only({ [survey_year        |-> years[k],
                      avg_income         |-> MeanTimes(Scale, DropNulls(g, "gross_income")),
                      avg_savings        |-> MeanTimes(Scale, DropNulls(g, "estimated_savings")),
                      avg_excess_savings |-> MeanTimes(Scale, DropNulls(g, "excess_savings")),
                      n_households       |-> Len(g),
                      n_with_income      |-> Len(DropNulls(g, "gross_income"))] :
                     g \in {RowsOfYear(rows, years[k])} })] :
           years \in {SortedSeq({rows[i].survey_year : i \in DOMAIN rows})} })

\* the sum of f over the pairs i < j of 1..n
PairSum(n, f) ==
    SumAt(f, {ij \in (1..n) \X (1..n) : ij[1] < ij[2]})

\* np.polyfit(x, y, 1) evaluated at x0, exactly: with n points,
\*   d  = n*Sxx - Sx*Sx = sum over pairs of (xi - xj)^2
\*   sn = n*Sxy - Sx*Sy = sum over pairs of (xi - xj)*(yi - yj)
\*   coef[0] = sn / d, coef[1] = (Sy - coef[0]*Sx) / n
\*   coef[0]*x0 + coef[1] = (d*Sy + sn*(n*x0 - Sx)) / (n*d)
LineAt(pts, x0) ==
    LET n  == Len(pts)
        sx == SeqSum([i \in DOMAIN pts |-> pts[i].x])
        sy == SeqSum([i \in DOMAIN pts |-> pts[i].y])
        d  == PairSum(n, [ij \in (1..n) \X (1..n) |->
                            (pts[ij[1]].x - pts[ij[2]].x) * (pts[ij[1]].x - pts[ij[2]].x)])
        sn == PairSum(n, [ij \in (1..n) \X (1..n) |->
                            (pts[ij[1]].x - pts[ij[2]].x) * (pts[ij[1]].y - pts[ij[2]].y)])
    IN  Frac(d * sy + sn * (n * x0 - sx), n * d)

\* the (year, avg_savings) points of the rows with a non-null avg_savings
\* (to_numpy turns a null into NaN, the mask removes it)
CleanPoints(yrows) ==
    LET keep == SelectSeq(yrows, LAMBDA r : ~IsNull(r.avg_savings))
    IN  [i \in DOMAIN keep |-> [x |-> keep[i].survey_year, y |-> Val(keep[i].avg_savings)]]

\* variant that takes every year before 2020
TrendRowsAllPre(yrows) == SelectSeq(yrows, LAMBDA r : r.survey_year < 2020)

\* yearly.filter(2016 <= survey_year < 2020) (lines 226-229)
TrendRows(yrows) ==
    SelectSeq(yrows, LAMBDA r : r.survey_year >= 2016 /\ r.survey_year < 2020)

\* variant that fits as soon as one point is there (a horizontal line)
CounterfactualFromOne(yrows, x0) ==
    LET pts == CleanPoints(TrendRows(yrows))
    IN  IF Len(pts) >= 2 THEN Some(LineAt(pts, x0))
        ELSE IF Len(pts) = 1 THEN Some(Frac(pts[1].y, 1))
        ELSE NULL

\* the counterfactual_savings cell of the row of year x0 (lines 231-253)
Counterfactual(yrows, x0) ==
    IF Len(TrendRows(yrows)) >= 2
    THEN Only({ IF Len(pts) >= 2 THEN Some(LineAt(pts, x0)) ELSE NULL :
                pts \in {CleanPoints(TrendRows(yrows))} })
    ELSE NULL

\* variant in which a null makes every later running total null
CumSumPoisoned(cells) ==
    [i \in DOMAIN cells |->
       IF \E j \in 1..i : IsNull(cells[j]) THEN NULL
       ELSE Some(SeqSum([j \in 1..i |-> Val(cells[j])]))]

\* polars cum_sum: a null stays null and is left out of the running total
CumSum(cells) ==
    [i \in DOMAIN cells |->
       IF IsNull(cells[i]) THEN NULL
       ELSE Some(SeqSum([j \in 1..i |-> FillNa0(cells[j])]))]

create_time_series(rows) ==
    Only({ Only({ [k \in DOMAIN agg |->
                     [counterfactual_savings |-> Counterfactual(agg, agg[k].survey_year),
                      cumulative_excess      |-> cum[k]] @@ agg[k]] :
                  cum \in {CumSum([k \in DOMAIN agg |-> agg[k].avg_excess_savings])} }) :
           agg \in {YearlyAgg(rows)} })

CreateTimeSeries ==
    /\ pc = "time_series"
    /\ yearly' = create_time_series(nmg)
    /\ pc' = "done"
    /\ stages' = stages \o TimeSeriesStages
    /\ UNCHANGED <<sheet_i, all_data, warnings, nmg, baseline_savings, scale_report,
                   df_pandas, df_ret, workbook, returned, dash>>

(***************************************************************************)
(* The run of main(): load_and_clean_nmg, then create_time_series.         *)
(***************************************************************************)
EmptyFrame == [columns |-> <<>>, rows |-> <<>>]

Init ==
    /\ pc = "load"
    /\ sheet_i = 1
    /\ all_data = <<>>
    /\ warnings = <<>>
    /\ nmg = <<>>
    /\ baseline_savings = NULL
    /\ scale_report = NULL
    /\ yearly = <<>>
    /\ df_pandas = EmptyFrame
    /\ df_ret = NULL
    /\ stages = <<>>
    /\ workbook = <<>>
    /\ returned = <<>>
    /\ dash = NULL

Next ==
    \/ LoadSheetOk
    \/ LoadSheetFail
    \/ CleanNmg
    \/ CleanNmgRaises
    \/ CalculateExcessSavings
    \/ CreateTimeSeries

Spec == Init /\ [][Next]_vars

(***************************************************************************)
(* main() called a second time on the same excel file.                     *)
(***************************************************************************)
\* variant in which the list of loaded frames outlives the call
MainAgainKeepingAllData ==
    /\ pc = "done"
    /\ returned = <<>>
    /\ returned' = <<[nmg |-> nmg, yearly |-> yearly]>>
    /\ pc' = "load"
    /\ sheet_i' = 1
    /\ warnings' = <<>>
    /\ nmg' = <<>>
    /\ baseline_savings' = NULL
    /\ scale_report' = NULL
    /\ yearly' = <<>>
    /\ stages' = <<>>
    /\ UNCHANGED <<all_data, df_pandas, df_ret, workbook, dash>>

\* the first call has returned its pair (line 309); the second call starts
\* with fresh locals (all_data = [] at line 48) and reads the same file
MainAgain ==
    /\ pc = "done"
    /\ returned = <<>>
    /\ returned' = <<[nmg |-> nmg, yearly |-> yearly]>>
    /\ pc' = "load"
    /\ sheet_i' = 1
    /\ all_data' = <<>>
    /\ warnings' = <<>>
    /\ nmg' = <<>>
    /\ baseline_savings' = NULL
    /\ scale_report' = NULL
    /\ yearly' = <<>>
    /\ stages' = <<>>
    /\ UNCHANGED <<df_pandas, df_ret, workbook, dash>>

LoadSheetTwice == LoadSheet(TwiceMaxRows)

NextTwice ==
    \/ LoadSheetTwice
    \/ LoadSheetFail
    \/ CleanNmg
    \/ CleanNmgRaises
    \/ CalculateExcessSavings
    \/ CreateTimeSeries
    \/ MainAgain

SpecTwice == Init /\ [][NextTwice]_vars

(***************************************************************************)
(* sum_income_sources applied to one raw frame on its own.                 *)
(***************************************************************************)
\* the sequences of at most AggMaxCols distinct column names, in sheet order
AggColumnSets ==
    { [k \in DOMAIN SortedSeq(S) |-> AggColNames[SortedSeq(S)[k]]] :
        S \in {T \in SUBSET (DOMAIN AggColNames) : Cardinality(T) <= AggMaxCols} }

InitAgg ==
    /\ pc = "call"
    /\ \E columns \in AggColumnSets :
       \E n \in 0..AggMaxRows :
       \E rows \in [1..n -> [Range(columns) -> Cells]] :
          df_pandas = [columns |-> columns, rows |-> rows]
    /\ df_ret = NULL
    /\ sheet_i = 1
    /\ all_data = <<>>
    /\ warnings = <<>>
    /\ nmg = <<>>
    /\ baseline_savings = NULL
    /\ scale_report = NULL
    /\ yearly = <<>>
    /\ stages = <<>>
    /\ workbook = <<>>
    /\ returned = <<>>
    /\ dash = NULL

\* the call mutates the frame it is given and returns that same frame
SumIncomeSources ==
    /\ pc = "call"
    /\ df_pandas' = sum_income_sources(df_pandas)
    /\ df_ret' = Some(df_pandas')
    /\ pc' = "returned"
    /\ UNCHANGED <<sheet_i, all_data, warnings, nmg, baseline_savings, scale_report,
                   yearly, stages, workbook, returned, dash>>

NextAgg == SumIncomeSources

SpecAgg == InitAgg /\ [][NextAgg]_vars

(***************************************************************************)
(* The decile assigner (lines 107-112) applied to one panel on its own.    *)
(***************************************************************************)
\* rows of a panel that is enumerated in any row order
DecSmallRows == 3

\* rows of a panel that is enumerated in ascending order of income
DecMaxRows == 11

\* incomes of a panel enumerated in any row order: null or a few pounds
DecCells == {<<>>, <<0>>, <<1>>, <<2>>}

\* steps between consecutive incomes of a panel in ascending order: with
\* repeated incomes, or with distinct incomes unevenly spaced
DecStepSets == {{0, 1}, {1, 2}}

DecWaves == {"2019", "2020"}

\* a row of the panel as it stands before line 108
DecRow(i, wave, income) ==
    [household_id |-> Some(i), survey_year |-> IntOfSheet(wave),
     survey_wave |-> wave, gross_income |-> income]

\* incomes that start at 0 and go up by steps[i] from row i - 1 to row i
Ascending(steps, n) == [i \in 1..n |-> SumAt(steps, 2..i)]

InitDec ==
    /\ pc = "deciles"
    /\ \/ \E n \in 0..DecSmallRows :
          \E waves \in [1..n -> DecWaves] :
          \E incomes \in [1..n -> DecCells] :
             nmg = WithFlags([i \in 1..n |-> DecRow(i, waves[i], incomes[i])])
       \/ \E n \in (DecSmallRows + 1)..DecMaxRows :
          \E step_set \in DecStepSets :
          \E steps \in [2..n -> step_set] :
          \E incomes \in {Ascending(steps, n)} :
             nmg = WithFlags([i \in 1..n |->
                      DecRow(i, IF i % 2 = 1 THEN "2019" ELSE "2020",
                             Some(incomes[i]))])
    /\ df_pandas = EmptyFrame
    /\ df_ret = NULL
    /\ sheet_i = 1
    /\ all_data = <<>>
    /\ warnings = <<>>
    /\ baseline_savings = NULL
    /\ scale_report = NULL
    /\ yearly = <<>>
    /\ stages = <<>>
    /\ workbook = <<>>
    /\ returned = <<>>
    /\ dash = NULL

\* lines 108-112: the with_columns call either raises or adds income_decile
AssignDeciles ==
    /\ pc = "deciles"
    /\ IF QcutRaises(DropNulls(nmg, "gross_income"))
       THEN pc' = "failed" /\ nmg' = nmg
       ELSE pc' = "assigned" /\ nmg' = WithDeciles(nmg)
    /\ UNCHANGED <<sheet_i, all_data, warnings, baseline_savings, scale_report,
                   yearly, df_pandas, df_ret, stages, workbook, returned, dash>>

NextDec == AssignDeciles

SpecDeciles == InitDec /\ [][NextDec]_vars

(***************************************************************************)
(* The dashboards (src/new_revised.py and src/app.py).  A dashboard script *)
(* reads the two parquet files main wrote and runs from top to bottom; the *)
(* body of every `with tab:` block runs on every run of the script.  An    *)
(* uncaught exception ends the script.                                     *)
(*                                                                         *)
(* The household file is kept as groups of equal rows: a group is a row    *)
(* together with the number n of rows like it.  Means over the yearly file *)
(* are kept times DashScale; means over groups are reduced fractions.      *)
(***************************************************************************)
\* the two scripts
DashApps == {"new_revised", "app"}

\* years the yearly file may have a row for
DashYears == {2016, 2019, 2020, 2021, 2022}

\* avg_savings of a yearly row: null, zero, or a thousand pounds
DashCells == {<<>>, <<0>>, <<1000>>}

\* rows in one group of the household file
DashGroupSizes == {1, 50}

DashScale == LcmUpTo(Cardinality(DashYears))

\* a row of data/nmg_yearly.parquet; a year without any income has nulls in
\* all three averages
DashYearlyRow(y, cell) ==
    [survey_year |-> y, avg_income |-> MulNull(cell, 10), avg_savings |-> cell,
     avg_excess_savings |-> MulNull(cell, 0)]

Digit(d) == <<"0", "1", "2", "3", "4", "5", "6", "7", "8", "9">>[d + 1]

\* f"D{i}" (src/load_nmg_smart.py line 110), as the sequence of its characters
DecileLabel(i) ==
    IF i < 10 THEN <<"D", Digit(i)>> ELSE <<"D", Digit(i \div 10), Digit(i % 10)>>

LabelNumber(label) == CHOOSE i \in 1..10 : DecileLabel(i) = label

\* a group of rows of data/nmg_real_cleaned.parquet in decile i
DashGroup(y, i, n) ==
    [survey_year |-> y, gross_income |-> Some(1000 * i),
     income_decile |-> Some(DecileLabel(i)), estimated_savings |-> Some(100 * i),
     excess_savings |-> Some(10 * i), n |-> n]

\* a group of rows without income
DashGroupNoIncome(y, n) ==
    [survey_year |-> y, gross_income |-> NULL, income_decile |-> NULL,
     estimated_savings |-> NULL, excess_savings |-> NULL, n |-> n]

\* len(df)
PanelLen(groups) == SeqSum([g \in DOMAIN groups |-> groups[g].n])

\* df[col].mean() over groups of rows: nulls are skipped, null if none is left
GroupMean(groups, col) ==
    LET keep == SelectSeq(groups, LAMBDA r : ~IsNull(r[col]))
    IN  IF keep = <<>> THEN NULL
        ELSE Some(Frac(SeqSum([g \in DOMAIN keep |-> keep[g].n * Val(keep[g][col])]),
                       PanelLen(keep)))

\* df_yearly.filter(...)[col].mean() for the years lo..hi
WindowMean(df_yearly, lo, hi, col) ==
    MeanTimes(DashScale,
              DropNulls(SelectSeq(df_yearly, LAMBDA r : lo <= r.survey_year
                                                        /\ r.survey_year <= hi), col))

\* df_yearly.filter(survey_year >= lo)[col].mean()
MeanFrom(df_yearly, lo, col) ==
    MeanTimes(DashScale,
              DropNulls(SelectSeq(df_yearly, LAMBDA r : lo <= r.survey_year), col))

\* the truth value of an optional float: None and 0.0 are false
Truthy(cell) == ~IsNull(cell) /\ Val(cell) # 0

\* a - b raises TypeError when a or b is None
MinusRaises(a, b) == IsNull(a) \/ IsNull(b)

MinusCells(a, b) == Some(Val(a) - Val(b))

\* (with_income / total * 100) if total > 0 else 0
CoverageRate(with_income, total) ==
    IF total > 0 THEN Frac(with_income * 100, total) ELSE Frac(0, 1)

\* len(df.filter(pl.col('gross_income').is_not_null()))
WithIncome(df_panel) ==
    PanelLen(SelectSeq(df_panel, LAMBDA r : ~IsNull(r.gross_income)))

(***************************************************************************)
(* new_revised.py: calculate_statistics (lines 41-97)                      *)
(***************************************************************************)
\* lines 83 and 89: the subtraction is evaluated when baseline_savings is
\* true, whatever the left operand is
CalculateStatisticsRaises(df_yearly) ==
    \E baseline_savings_ \in {WindowMean(df_yearly, 2016, 2019, "avg_savings")} :
       /\ Truthy(baseline_savings_)
       /\ \/ MinusRaises(WindowMean(df_yearly, 2020, 2021, "avg_savings"),
                         baseline_savings_)
          \/ MinusRaises(MeanFrom(df_yearly, 2022, "avg_savings"), baseline_savings_)

calculate_statistics(df_yearly, df_panel) ==
    LET baseline_savings_ == WindowMean(df_yearly, 2016, 2019, "avg_savings")
        pandemic_savings  == WindowMean(df_yearly, 2020, 2021, "avg_savings")
        post_savings      == MeanFrom(df_yearly, 2022, "avg_savings")
        total_obs         == PanelLen(df_panel)
        obs_with_income   == WithIncome(df_panel)
    IN  [baseline |->
           [savings |-> baseline_savings_,
            income  |-> WindowMean(df_yearly, 2016, 2019, "avg_income")],
         pandemic |->
           [savings |-> pandemic_savings,
            income  |-> WindowMean(df_yearly, 2020, 2021, "avg_income"),
            excess  |-> WindowMean(df_yearly, 2020, 2021, "avg_excess_savings"),
            change_from_baseline |->
               IF Truthy(baseline_savings_)
               THEN MinusCells(pandemic_savings, baseline_savings_) ELSE NULL],
         post_pandemic |->
           [savings |-> post_savings,
            income  |-> MeanFrom(df_yearly, 2022, "avg_income"),
            excess  |-> MeanFrom(df_yearly, 2022, "avg_excess_savings"),
            change_from_baseline |->
               IF Truthy(baseline_savings_)
               THEN MinusCells(post_savings, baseline_savings_) ELSE NULL],
         data_quality |->
           [total_obs |-> total_obs,
            obs_with_income |-> obs_with_income,
            coverage_rate |-> CoverageRate(obs_with_income, total_obs)]]

(***************************************************************************)
(* app.py: get_key_stats (lines 37-75)                                     *)
(***************************************************************************)
\* lines 67 and 70: the subtractions are not guarded
GetKeyStatsRaises(df_yearly) ==
    \E baseline_savings_ \in {WindowMean(df_yearly, 2016, 2019, "avg_savings")} :
       \/ MinusRaises(WindowMean(df_yearly, 2020, 2021, "avg_savings"),
                      baseline_savings_)
       \/ MinusRaises(MeanFrom(df_yearly, 2022, "avg_savings"), baseline_savings_)

get_key_stats(df_yearly, df_households) ==
    LET baseline_savings_ == WindowMean(df_yearly, 2016, 2019, "avg_savings")
        pandemic_savings  == WindowMean(df_yearly, 2020, 2021, "avg_savings")
        post_savings      == MeanFrom(df_yearly, 2022, "avg_savings")
        total             == PanelLen(df_households)
        with_income       == WithIncome(df_households)
    IN  [baseline_savings |-> baseline_savings_,
         baseline_income  |-> WindowMean(df_yearly, 2016, 2019, "avg_income"),
         pandemic_savings |-> pandemic_savings,
         pandemic_income  |-> WindowMean(df_yearly, 2020, 2021, "avg_income"),
         pandemic_change  |-> MinusCells(pandemic_savings, baseline_savings_),
         post_savings     |-> post_savings,
         post_income      |-> MeanFrom(df_yearly, 2022, "avg_income"),
         post_change      |-> MinusCells(post_savings, baseline_savings_),
         total_households |-> total,
         households_with_income |-> with_income,
         coverage_pct     |-> CoverageRate(with_income, total)]

(***************************************************************************)
(* analyze_by_decile (new_revised.py 100-121), get_decile_data (app.py     *)
(* 78-99): the same code under two names                                   *)
(***************************************************************************)
\* if len(df_post) < 100: return None
MinDecileRows == 100

analyze_by_decile(df_panel) ==
    LET df_post == SelectSeq(df_panel, LAMBDA r : /\ r.survey_year >= 2020
                                                  /\ ~IsNull(r.gross_income)
                                                  /\ ~IsNull(r.income_decile))
        deciles == SortedSeq({LabelNumber(Val(df_post[g].income_decile)) :
                                g \in DOMAIN df_post})
    IN  IF PanelLen(df_post) < MinDecileRows THEN NULL
        ELSE Some([k \in DOMAIN deciles |->
                Only({ [income_decile |-> DecileLabel(deciles[k]),
                        avg_income    |-> GroupMean(rows, "gross_income"),
                        avg_savings   |-> GroupMean(rows, "estimated_savings"),
                        avg_excess    |-> GroupMean(rows, "excess_savings"),
                        n_households  |-> PanelLen(rows)] :
                       rows \in {SelectSeq(df_post, LAMBDA r :
                                   r.income_decile = Some(DecileLabel(deciles[k])))} })])

(***************************************************************************)
(* main (new_revised.py 298-630, app.py 265-548)                           *)
(***************************************************************************)
\* a regular expression without repetition: a set of alternatives, each a
\* sequence of character classes
\* 'D[1-3]'
BottomPattern == { << {"D"}, {"1", "2", "3"} >> }

\* 'D[8-9]|D10'
TopPattern == { << {"D"}, {"8", "9"} >>, << {"D"}, {"1"}, {"0"} >> }

MatchesAt(alt, s, i) ==
    /\ i + Len(alt) - 1 <= Len(s)
    /\ \A j \in DOMAIN alt : s[i + j - 1] \in alt[j]

\* Series.str.contains(pattern, regex=True) for one string: re.search, a match
\* of some alternative at some position
StrContains(s, pattern) ==
    \E alt \in pattern : \E i \in DOMAIN s : MatchesAt(alt, s, i)

\* decile_stats[decile_stats['income_decile'].str.contains(pattern, regex=True)]
RowsContaining(decile_stats, pattern) ==
    SelectSeq(decile_stats, LAMBDA r : StrContains(r.income_decile, pattern))

\* the mean of avg_excess over the selected rows, as sum and count (NaN when
\* the count is 0)
MeanAvgExcess(rows) ==
    [n |-> Len(rows),
     terms |-> [k \in DOMAIN rows |-> rows[k].avg_excess]]

\* the savings means and changes the text of a tab formats and divides
SavingsOf(app, stats) ==
    IF app = "new_revised"
    THEN [baseline |-> stats.baseline.savings,
          pandemic |-> stats.pandemic.savings,
          post |-> stats.post_pandemic.savings,
          pandemic_change |-> stats.pandemic.change_from_baseline,
          post_change |-> stats.post_pandemic.change_from_baseline]
    ELSE [baseline |-> stats.baseline_savings,
          pandemic |-> stats.pandemic_savings,
          post |-> stats.post_savings,
          pandemic_change |-> stats.pandemic_change,
          post_change |-> stats.post_change]

\* the exception the text of the time-series tab and of the summary raises:
\* formatting None with ':,.0f' or dividing None is a TypeError, dividing a
\* float by 0.0 a ZeroDivisionError (new_revised.py 435-439 and 568-570,
\* app.py 330-343, 377-383 and 502-504)
TextError(app, stats) ==
    LET s == SavingsOf(app, stats)
    IN  IF \/ IsNull(s.baseline) \/ IsNull(s.pandemic) \/ IsNull(s.post)
           \/ IsNull(s.pandemic_change) \/ IsNull(s.post_change)
        THEN Some("TypeError")
        ELSE IF Val(s.baseline) = 0 THEN Some("ZeroDivisionError") ELSE NULL

\* data/nmg_yearly.parquet with a row for each of the years, in ascending order
DashYearly(years, cells) ==
    [k \in DOMAIN SortedSeq(years) |->
       DashYearlyRow(SortedSeq(years)[k], cells[SortedSeq(years)[k]])]

\* data/nmg_real_cleaned.parquet: a group of n rows of 2020 for each of the
\* deciles, and if asked for a group of 2019 and a group without income
DashPanel(deciles, n, before, without) ==
    [k \in DOMAIN SortedSeq(deciles) |-> DashGroup(2020, SortedSeq(deciles)[k], n)]
    \o (IF before THEN <<DashGroup(2019, 5, n)>> ELSE <<>>)
    \o (IF without THEN <<DashGroupNoIncome(2021, n)>> ELSE <<>>)

\* the script as it starts on the two files
DashStart(app, df_yearly, df_panel) ==
    [app |-> app,
     df_yearly |-> df_yearly,
     df_panel |-> df_panel,
     stats |-> NULL,
     decile_stats |-> NULL,
     bottom_rows |-> <<>>,
     top_rows |-> <<>>,
     bottom_3 |-> NULL,
     top_3 |-> NULL,
     rendered |-> <<>>,
     error |-> NULL]

\* either any yearly file with an empty, a small or a large household file,
\* or the yearly file with every year valued and any household file
InitDash ==
    /\ pc = "dash_stats"
    /\ \E app \in DashApps :
          \/ \E years \in SUBSET DashYears :
             \E cells \in [years -> DashCells] :
             \E deciles \in {{}, 1..10} :
             \E n \in DashGroupSizes :
                dash = DashStart(app, DashYearly(years, cells),
                                 DashPanel(deciles, n, FALSE, FALSE))
          \/ \E deciles \in SUBSET (1..10) :
             \E n \in DashGroupSizes :
             \E before, without \in BOOLEAN :
                dash = DashStart(app, DashYearly(DashYears, [y \in DashYears |-> Some(1000)]),
                                 DashPanel(deciles, n, before, without))
    /\ df_pandas = EmptyFrame
    /\ df_ret = NULL
    /\ sheet_i = 1
    /\ all_data = <<>>
    /\ warnings = <<>>
    /\ nmg = <<>>
    /\ baseline_savings = NULL
    /\ scale_report = NULL
    /\ yearly = <<>>
    /\ stages = <<>>
    /\ workbook = <<>>
    /\ returned = <<>>

\* the script ends with an uncaught exception
Raise(error) ==
    /\ pc' = "dash_raised"
    /\ dash' = [dash EXCEPT !.error = Some(error)]

\* new_revised.py line 322
CalculateStatistics ==
    /\ pc = "dash_stats"
    /\ dash.app = "new_revised"
    /\ IF CalculateStatisticsRaises(dash.df_yearly)
       THEN Raise("TypeError")
       ELSE /\ pc' = "dash_deciles"
            /\ dash' = [dash EXCEPT !.stats =
                          Some(calculate_statistics(dash.df_yearly, dash.df_panel))]
    /\ UNCHANGED <<sheet_i, all_data, warnings, nmg, baseline_savings, scale_report,
                   yearly, df_pandas, df_ret, stages, workbook, returned>>

\* app.py line 287
GetKeyStats ==
    /\ pc = "dash_stats"
    /\ dash.app = "app"
    /\ IF GetKeyStatsRaises(dash.df_yearly)
       THEN Raise("TypeError")
       ELSE /\ pc' = "dash_deciles"
            /\ dash' = [dash EXCEPT !.stats =
                          Some(get_key_stats(dash.df_yearly, dash.df_panel))]
    /\ UNCHANGED <<sheet_i, all_data, warnings, nmg, baseline_savings, scale_report,
                   yearly, df_pandas, df_ret, stages, workbook, returned>>

\* new_revised.py line 323, app.py line 288
AnalyzeByDecile ==
    /\ pc = "dash_deciles"
    /\ dash' = [dash EXCEPT !.decile_stats = analyze_by_decile(dash.df_panel)]
    /\ pc' = "dash_tab1"
    /\ UNCHANGED <<sheet_i, all_data, warnings, nmg, baseline_savings, scale_report,
                   yearly, df_pandas, df_ret, stages, workbook, returned>>

\* the key metrics and the time-series tab (new_revised.py 372-441, app.py
\* 327-387); the charts drop the null rows they plot and do not raise
RenderTab1 ==
    /\ pc = "dash_tab1"
    /\ \E error \in {TextError(dash.app, Val(dash.stats))} :
          IF error # NULL
          THEN Raise(Val(error))
          ELSE /\ pc' = "dash_tab2"
               /\ dash' = [dash EXCEPT !.rendered = Append(@, "tab1")]
    /\ UNCHANGED <<sheet_i, all_data, warnings, nmg, baseline_savings, scale_report,
                   yearly, df_pandas, df_ret, stages, workbook, returned>>

\* the income-distribution tab (new_revised.py 443-487, app.py 389-431):
\* bottom_3 and top_3 are assigned only when there is a decile table
RenderTab2 ==
    /\ pc = "dash_tab2"
    /\ IF dash.decile_stats # NULL
       THEN \E bottom \in {RowsContaining(Val(dash.decile_stats), BottomPattern)} :
            \E top \in {RowsContaining(Val(dash.decile_stats), TopPattern)} :
               dash' = [dash EXCEPT !.bottom_rows = bottom,
                                    !.top_rows = top,
                                    !.bottom_3 = Some(MeanAvgExcess(bottom)),
                                    !.top_3 = Some(MeanAvgExcess(top)),
                                    !.rendered = Append(@, "tab2")]
       ELSE dash' = [dash EXCEPT !.rendered = Append(@, "tab2")]
    /\ pc' = "dash_tab3"
    /\ UNCHANGED <<sheet_i, all_data, warnings, nmg, baseline_savings, scale_report,
                   yearly, df_pandas, df_ret, stages, workbook, returned>>

\* the data-explorer tab (new_revised.py 489-526, app.py 433-461)
RenderTab3 ==
    /\ pc = "dash_tab3"
    /\ dash' = [dash EXCEPT !.rendered = Append(@, "tab3")]
    /\ pc' = "dash_tab4"
    /\ UNCHANGED <<sheet_i, all_data, warnings, nmg, baseline_savings, scale_report,
                   yearly, df_pandas, df_ret, stages, workbook, returned>>

\* the export tab (new_revised.py 528-614, app.py 463-535): the summary text
\* formats the statistics and then reads top_3 and bottom_3 (new_revised.py
\* 574, app.py 508); reading a name that was never assigned is a NameError
RenderTab4 ==
    /\ pc = "dash_tab4"
    /\ \E error \in {TextError(dash.app, Val(dash.stats))} :
          IF error # NULL
          THEN Raise(Val(error))
          ELSE IF dash.top_3 = NULL \/ dash.bottom_3 = NULL
               THEN Raise("NameError")
               ELSE /\ pc' = "dash_done"
                    /\ dash' = [dash EXCEPT !.rendered = Append(@, "tab4")]
    /\ UNCHANGED <<sheet_i, all_data, warnings, nmg, baseline_savings, scale_report,
                   yearly, df_pandas, df_ret, stages, workbook, returned>>

NextDash ==
    \/ CalculateStatistics
    \/ GetKeyStats
    \/ AnalyzeByDecile
    \/ RenderTab1
    \/ RenderTab2
    \/ RenderTab3
    \/ RenderTab4

SpecDash == InitDash /\ [][NextDash]_vars

(***************************************************************************)
(* Properties.                                                             *)
(***************************************************************************)
Max0(a) == IF a > 0 THEN a ELSE 0

\* the panel carries the derived savings columns
HasExcess == pc \in {"time_series", "done"}

\* C1: after sum_income_sources, in a frame with at least one income-source
\* column, total_hh_income of a row is null exactly when every income-source
\* cell of the row is missing, and otherwise is the sum of the cells that are
\* present (a missing one counting as zero).
C1_IncomeNullIffAllMissing ==
    pc = "returned" =>
        LET df  == df_pandas
            src == {c \in Range(df.columns) : IsIncomeCol(c)}
        IN  src # {} =>
              \A i \in DOMAIN df.rows :
                 LET row     == df.rows[i]
                     present == {c \in src : row[c] # NULL}
                 IN  /\ (row["total_hh_income"] = NULL) <=> (present = {})
                     /\ present # {} =>
                          row["total_hh_income"] =
                            Some(SumAt([c \in present |-> row[c][1]], present))

\* a row with one source missing and the present ones summing to zero got 0
C1_Witness ==
    /\ pc = "returned"
    /\ \E i \in DOMAIN df_pandas.rows :
          LET row == df_pandas.rows[i]
              src == {c \in DOMAIN row : IsIncomeCol(c)}
          IN  /\ Cardinality(src) >= 2
              /\ \E c \in src : row[c] = NULL
              /\ \E c \in src : row[c] # NULL
              /\ row["total_hh_income"] = <<0>>

\* C2: every excess_savings of the canonical table is null or >= 0.
C2_ExcessNeverNegative ==
    HasExcess =>
        \A i \in DOMAIN nmg :
            nmg[i].excess_savings = NULL \/ nmg[i].excess_savings[1] >= 0

\* a row whose estimated savings lie below the baseline was clipped to 0
C2_Witness ==
    /\ HasExcess
    /\ \E i \in DOMAIN nmg :
          /\ nmg[i].estimated_savings # NULL
          /\ Scale * nmg[i].estimated_savings[1] < baseline_savings[1]
          /\ nmg[i].excess_savings = <<0>>

\* C3: estimated_savings is null exactly where gross_income is null, and
\* excess_savings is null exactly where estimated_savings is null.
C3_NullPropagates ==
    HasExcess =>
        \A i \in DOMAIN nmg :
            /\ (nmg[i].estimated_savings = NULL) <=> (nmg[i].gross_income = NULL)
            /\ (nmg[i].excess_savings = NULL) <=> (nmg[i].estimated_savings = NULL)

\* one row without income next to one row with an income of zero
C3_Witness ==
    /\ HasExcess
    /\ \E i, j \in DOMAIN nmg :
          /\ nmg[i].gross_income = NULL
          /\ nmg[i].estimated_savings = NULL
          /\ nmg[i].excess_savings = NULL
          /\ nmg[j].gross_income = <<0>>
          /\ nmg[j].estimated_savings = <<0>>
          /\ nmg[j].excess_savings = <<0>>

\* the rate of a survey year, in percent, as the claim states it
RateOfYear(y) == IF y < 2020 THEN 8 ELSE IF y \in {2020, 2021} THEN 18 ELSE 10

\* C4: for every row with an income, estimated_savings is the income times
\* 8% before 2020, 18% in 2020 and 2021, 10% from 2022 on.
C4_RateByRegime ==
    HasExcess =>
        \A i \in DOMAIN nmg :
            nmg[i].gross_income # NULL =>
                nmg[i].estimated_savings =
                    Some(nmg[i].gross_income[1] * RateOfYear(nmg[i].survey_year))

\* one panel with a positive income in each of the three regimes
C4_Witness ==
    /\ HasExcess
    /\ \E i, j, k \in DOMAIN nmg :
          /\ nmg[i].survey_year = 2019 /\ nmg[i].estimated_savings = <<160000>>
          /\ nmg[j].survey_year = 2020 /\ nmg[j].estimated_savings = <<360000>>
          /\ nmg[k].survey_year = 2022 /\ nmg[k].estimated_savings = <<200000>>

\* the panel carries the three flags
HasFlags == pc \in {"excess", "time_series", "done"}

\* C5: the flags are functions of survey_year alone: pandemic_period = 1 iff
\* the year is 2020 or 2021, post_2020 = 1 iff year >= 2020, pre_pandemic = 1
\* iff year < 2020; so exactly one regime holds, pre_pandemic and post_2020
\* are complementary and pandemic_period implies post_2020.
C5_RegimeFlags ==
    HasFlags =>
        \A i \in DOMAIN nmg :
            LET y == nmg[i].survey_year
                r == nmg[i]
            IN  /\ r.pandemic_period \in {0, 1}
                /\ r.post_2020 \in {0, 1}
                /\ r.pre_pandemic \in {0, 1}
                /\ (r.pandemic_period = 1) <=> (y \in {2020, 2021})
                /\ (r.post_2020 = 1) <=> (y >= 2020)
                /\ (r.pre_pandemic = 1) <=> (y < 2020)
                /\ r.pre_pandemic + r.post_2020 = 1
                /\ r.pandemic_period = 1 => r.post_2020 = 1
                /\ Cardinality({k \in 1..3 :
                       \/ k = 1 /\ r.pre_pandemic = 1
                       \/ k = 2 /\ r.pandemic_period = 1
                       \/ k = 3 /\ r.post_2020 = 1 /\ r.pandemic_period = 0}) = 1

\* one panel with a pre-pandemic, a pandemic and a post-pandemic row
C5_Witness ==
    /\ HasFlags
    /\ \E i, j, k \in DOMAIN nmg :
          /\ nmg[i].survey_year = 2016 /\ nmg[i].pre_pandemic = 1
          /\ nmg[j].survey_year = 2020 /\ nmg[j].pandemic_period = 1
          /\ nmg[k].survey_year = 2025 /\ nmg[k].post_2020 = 1
                                       /\ nmg[k].pandemic_period = 0

\* rows with estimated savings in the window 2016..2019, and before 2020
WindowIdx ==
    {i \in DOMAIN nmg : /\ nmg[i].survey_year >= 2016
                        /\ nmg[i].survey_year <= 2019
                        /\ nmg[i].estimated_savings # NULL}

PreIdx ==
    {i \in DOMAIN nmg : nmg[i].survey_year < 2020 /\ nmg[i].estimated_savings # NULL}

MeanSavingsOver(S) ==
    (Scale * SumAt([i \in S |-> nmg[i].estimated_savings[1]], S)) \div Cardinality(S)

\* C6: the baseline is the mean of the non-null estimated savings of 2016..2019
\* when there is one, else the mean of those before 2020 when there is one,
\* else 2000 pounds; also when the window has rows that are all null.
C6_BaselineFallbackChain ==
    HasExcess =>
        baseline_savings =
            Some(IF WindowIdx # {} THEN MeanSavingsOver(WindowIdx)
                 ELSE IF PreIdx # {} THEN MeanSavingsOver(PreIdx)
                 ELSE 2000 * 100 * Scale)

\* the window has rows, all without income, and an earlier year has one
C6_Witness ==
    /\ HasExcess
    /\ \E i \in DOMAIN nmg : nmg[i].survey_year \in 2016..2019
    /\ WindowIdx = {}
    /\ PreIdx # {}
    /\ baseline_savings = Some(MeanSavingsOver(PreIdx))
    /\ baseline_savings # Some(2000 * 100 * Scale)

\* C7: one baseline B serves every row: each row with estimated savings has
\* excess_savings = max(0, estimated_savings - B), whatever its year.
C7_SingleBaseline ==
    HasExcess =>
        /\ baseline_savings # NULL
        /\ \A i \in DOMAIN nmg :
              nmg[i].estimated_savings # NULL =>
                  nmg[i].excess_savings =
                      Some(Max0(Scale * nmg[i].estimated_savings[1] - baseline_savings[1]))

\* rows of two years with different savings, both measured against the one B
C7_Witness ==
    /\ HasExcess
    /\ \E i, j \in DOMAIN nmg :
          /\ nmg[i].survey_year < nmg[j].survey_year
          /\ nmg[i].survey_year >= 2016
          /\ nmg[i].estimated_savings # NULL
          /\ nmg[j].estimated_savings # NULL
          /\ nmg[j].excess_savings[1] > 0
          /\ nmg[j].excess_savings[1] =
                Scale * nmg[j].estimated_savings[1] - baseline_savings[1]
          /\ baseline_savings[1] = Scale * nmg[i].estimated_savings[1]
          /\ baseline_savings[1] > 0

\* indices of the yearly rows up to k that have a mean excess
ExcessIdxUpTo(k) == {j \in 1..k : yearly[j].avg_excess_savings # NULL}

RunningExcess(k) ==
    SumAt([j \in ExcessIdxUpTo(k) |-> yearly[j].avg_excess_savings[1]], ExcessIdxUpTo(k))

\* C8 as stated: from the first year with a mean excess on, every year's
\* cumulative_excess is non-null and is the sum of the non-null mean excesses
\* up to it.
C8_CumulativeNeverNull ==
    pc = "done" =>
        \A k \in DOMAIN yearly :
            ExcessIdxUpTo(k) # {} =>
                /\ yearly[k].cumulative_excess # NULL
                /\ yearly[k].cumulative_excess = Some(RunningExcess(k))

\* C8 amended: a year without a mean excess adds nothing to the running total
\* and has a null cumulative_excess itself; every year with a mean excess has
\* the sum of the non-null mean excesses up to and including it.
C8_CumulativeSkipsNulls ==
    pc = "done" =>
        \A k \in DOMAIN yearly :
            IF yearly[k].avg_excess_savings = NULL
            THEN yearly[k].cumulative_excess = NULL
            ELSE yearly[k].cumulative_excess = Some(RunningExcess(k))

\* a year without mean excess lies between two years that have one, and the
\* running total of the later year carries the positive excess of the earlier
C8_Witness ==
    /\ pc = "done"
    /\ \E a, b, c \in DOMAIN yearly :
          /\ a < b /\ b < c
          /\ yearly[a].avg_excess_savings # NULL
          /\ yearly[a].avg_excess_savings[1] > 0
          /\ yearly[b].avg_excess_savings = NULL
          /\ yearly[b].cumulative_excess = NULL
          /\ yearly[c].avg_excess_savings # NULL
          /\ yearly[c].cumulative_excess[1] =
                yearly[a].avg_excess_savings[1] + yearly[c].avg_excess_savings[1]

\* the (year, mean savings) points of the yearly rows before 2020, and of
\* those from 2016 to 2019
PrePandemicPoints ==
    CleanPoints(SelectSeq(yearly, LAMBDA r : r.survey_year < 2020))

WindowPoints ==
    CleanPoints(SelectSeq(yearly, LAMBDA r : r.survey_year >= 2016 /\ r.survey_year <= 2019))

\* C9 as stated: the line is fitted from every year before 2020 that has a
\* mean savings, and is evaluated at every year.
C9_FitFromAllPrePandemic ==
    pc = "done" =>
        LET pts == PrePandemicPoints
        IN  Len(pts) >= 2 =>
              \A k \in DOMAIN yearly :
                  yearly[k].counterfactual_savings =
                      Some(LineAt(pts, yearly[k].survey_year))

\* C9 amended: the line is fitted from every year from 2016 to 2019 that has a
\* mean savings, and from no other year; that line is evaluated at every year.
C9_FitFromWindow ==
    pc = "done" =>
        LET pts == WindowPoints
        IN  Len(pts) >= 2 =>
              \A k \in DOMAIN yearly :
                  yearly[k].counterfactual_savings =
                      Some(LineAt(pts, yearly[k].survey_year))

\* 2015, 2016 and 2019 have mean savings that are not on one line, and the
\* fitted line passes through the points of 2016 and 2019 but not 2015
C9_Witness ==
    /\ pc = "done"
    /\ Len(yearly) = 3
    /\ yearly[1].survey_year = 2015
    /\ yearly[3].survey_year = 2019
    /\ \A k \in 1..3 : yearly[k].avg_savings # NULL
    /\ \A k \in 2..3 :
          yearly[k].counterfactual_savings = Some(Frac(yearly[k].avg_savings[1], 1))
    /\ yearly[1].counterfactual_savings # Some(Frac(yearly[1].avg_savings[1], 1))

\* the years before 2020 that have a mean savings
PreYearsWithSavings ==
    {k \in DOMAIN yearly : yearly[k].survey_year < 2020 /\ yearly[k].avg_savings # NULL}

\* C10: with fewer than two years before 2020 that have a mean savings, the
\* counterfactual column is null in every yearly row; create_time_series
\* still returns.
C10_NoFitBelowTwoPoints ==
    pc = "done" =>
        (Cardinality(PreYearsWithSavings) < 2 =>
            \A k \in DOMAIN yearly : yearly[k].counterfactual_savings = NULL)

\* exactly one year before 2020 has a mean savings, next to a later year
C10_Witness ==
    /\ pc = "done"
    /\ Cardinality(PreYearsWithSavings) = 1
    /\ \E k \in PreYearsWithSavings : yearly[k].survey_year >= 2016
    /\ \E k \in DOMAIN yearly : yearly[k].survey_year >= 2020 /\ yearly[k].avg_savings # NULL
    /\ \A k \in DOMAIN yearly : yearly[k].counterfactual_savings = NULL

\* the product of two fractions, reduced crosswise before multiplying
MulFrac(a, b) ==
    LET g1 == Gcd(a.num, b.den)
        g2 == Gcd(b.num, a.den)
    IN  [num |-> (a.num \div g1) * (b.num \div g2),
         den |-> (a.den \div g2) * (b.den \div g1)]

\* the rows the scaler counts: survey_year >= 2020 and excess_savings non-null
ScalerIdx ==
    {i \in DOMAIN nmg : nmg[i].survey_year >= 2020 /\ nmg[i].excess_savings # NULL}

\* C11: whenever some row with survey_year >= 2020 has a non-null
\* excess_savings, the scaler's mean is the mean of the non-null excess_savings
\* of exactly those rows, the national total is that mean times 28,000,000
\* households, and the scaling factor times the national total equals the
\* benchmark of 200e9 pounds.
C11_FactorTimesTotalIsBenchmark ==
    (HasExcess /\ ScalerIdx # {}) =>
        LET r     == scale_report[1]
            avg   == r.avg_excess_per_hh[1]
            total == r.total_excess_uk[1]
        IN  /\ r.status = "estimated"
            /\ avg = Frac(SumAt([i \in ScalerIdx |-> nmg[i].excess_savings[1]], ScalerIdx),
                          Cardinality(ScalerIdx))
            /\ total = MulFrac(avg, Frac(HouseholdsMillions, 100 * Scale))
            /\ MulFrac(r.scale_factor[1], total) = Frac(BenchmarkMillions, 1)

\* C12: when no row with survey_year >= 2020 has a non-null excess_savings the
\* scaler reports "not enough data" and produces no mean, no national total
\* and no scaling factor; and no quotient the scaler produces comes from a
\* division by zero.
C12_InsufficientDataNoDivision ==
    HasExcess =>
        LET r == scale_report[1]
        IN  /\ ScalerIdx = {} =>
                  /\ r.status = "not enough data"
                  /\ r.avg_excess_per_hh = NULL
                  /\ r.total_excess_uk = NULL
                  /\ r.scale_factor = NULL
            /\ \A q \in {r.avg_excess_per_hh, r.total_excess_uk, r.scale_factor} :
                  q # NULL => q[1].den # 0

\* a panel with rows from 2020 on, all of them without income, was reported
\* as not enough data
C12_Witness ==
    /\ HasExcess
    /\ \E i \in DOMAIN nmg : nmg[i].survey_year >= 2020
    /\ \E i \in DOMAIN nmg : nmg[i].survey_year < 2020 /\ nmg[i].excess_savings # NULL
    /\ ScalerIdx = {}
    /\ scale_report[1].status = "not enough data"

\* the loop over the sheets is over
LoadingOver == pc # "load"

\* the position of a sheet in year_sheets
SheetIndex(sheet) == CHOOSE k \in DOMAIN year_sheets : year_sheets[k] = sheet

\* the rows of the loaded sheets, sheet after sheet
LoadedRows == ConcatRows(all_data)

\* C13: every sheet the loop has passed was either loaded or reported and
\* skipped; the run fails exactly when no sheet was loaded; and otherwise the
\* panel holds exactly the rows of the loaded sheets, in sheet order, none
\* lost or duplicated.
C13_FailsOnlyWhenNothingLoads ==
    /\ Len(all_data) + Len(warnings) = sheet_i - 1
    /\ \A k \in DOMAIN warnings :
          \A f \in DOMAIN all_data :
             \A i \in DOMAIN all_data[f].rows :
                all_data[f].rows[i]["survey_wave"] # warnings[k]
    /\ LoadingOver => (pc = "failed" <=> all_data = <<>>)
    /\ (LoadingOver /\ pc # "failed") =>
          /\ Len(nmg) = Len(LoadedRows)
          /\ \A i \in DOMAIN nmg :
                /\ nmg[i].survey_wave = LoadedRows[i]["survey_wave"]
                /\ nmg[i].survey_year = LoadedRows[i]["survey_year"]
                /\ nmg[i].gross_income = LoadedRows[i]["total_hh_income"]
                /\ nmg[i].household_id = CellOf(LoadedRows[i], "subsid")
          /\ \A i, j \in DOMAIN nmg :
                i < j => SheetIndex(nmg[i].survey_wave) <= SheetIndex(nmg[j].survey_wave)

\* the loaded sheets whose raw table had no income-source column
NoIncomeWaves ==
    UNION { {all_data[f].rows[i]["survey_wave"] : i \in DOMAIN all_data[f].rows} :
              f \in {g \in DOMAIN all_data :
                       \A c \in Range(all_data[g].columns) : ~IsIncomeCol(c)} }

\* the panel without the rows of those sheets
PanelWithIncomeSheets ==
    LET waves == NoIncomeWaves
    IN  SelectSeq(nmg, LAMBDA r : r.survey_wave \notin waves)

\* C14: in a finished run that loaded a sheet without any income-source
\* column, every row of such a sheet has null gross_income, income_decile,
\* estimated_savings and excess_savings, and the deciles of the other rows,
\* the baseline and the counterfactual values are what they would be without
\* the rows of that sheet.
C14_NoIncomePeriodContributesNothing ==
    (pc = "done" /\ NoIncomeWaves # {}) =>
        \A without \in {PanelWithIncomeSheets} :
            /\ \A i \in DOMAIN nmg :
                  nmg[i] \notin Range(without) =>
                     /\ nmg[i].gross_income = NULL
                     /\ nmg[i].income_decile = NULL
                     /\ nmg[i].estimated_savings = NULL
                     /\ nmg[i].excess_savings = NULL
            /\ WithDeciles(without) = without
            /\ baseline_savings = Some(Baseline(without))
            /\ \A agg \in {YearlyAgg(without)} :
                  \A k \in DOMAIN yearly :
                     yearly[k].counterfactual_savings =
                        Counterfactual(agg, yearly[k].survey_year)

\* a finished run whose 2016 sheet had no income-source column, next to a
\* 2019 sheet and a later sheet with incomes
C14_Witness ==
    /\ pc = "done"
    /\ "2016" \in NoIncomeWaves
    /\ \E i \in DOMAIN nmg : nmg[i].survey_year = 2019 /\ nmg[i].gross_income = <<20000>>
    /\ \E i \in DOMAIN nmg : nmg[i].survey_year >= 2020 /\ nmg[i].excess_savings # NULL
    /\ \A k \in DOMAIN yearly : yearly[k].counterfactual_savings = NULL

\* pence * Scale for an amount in pounds
Pounds(a) == a * 100 * Scale

\* the panel of one household with income 20,000 in 2016, 2020 and 2022
OneHouseholdPanel ==
    /\ Len(nmg) = 3
    /\ nmg[1].survey_year = 2016 /\ nmg[2].survey_year = 2020 /\ nmg[3].survey_year = 2022
    /\ \A i \in 1..3 : nmg[i].gross_income = <<20000>> /\ nmg[i].household_id = <<1>>

\* C15: for the panel of one household with income 20,000 in 2016, 2020 and
\* 2022 a finished run has baseline 1,600; estimated savings 3,600 and excess
\* 2,000 in 2020; estimated savings 2,000 and excess 400 in 2022; excess 0 in
\* 2016; and cumulative excess 2,400 in the yearly row of 2022.
C15_OneHouseholdScenario ==
    (pc = "done" /\ OneHouseholdPanel) =>
        /\ baseline_savings = Some(Pounds(1600))
        /\ nmg[1].excess_savings = Some(0)
        /\ nmg[2].estimated_savings = Some(3600 * 100)
        /\ nmg[2].excess_savings = Some(Pounds(2000))
        /\ nmg[3].estimated_savings = Some(2000 * 100)
        /\ nmg[3].excess_savings = Some(Pounds(400))
        /\ Len(yearly) = 3
        /\ yearly[3].survey_year = 2022
        /\ yearly[3].cumulative_excess = Some(Pounds(2400) * Scale)

\* the scenario was run to the end
C15_Witness ==
    /\ pc = "done"
    /\ OneHouseholdPanel
    /\ yearly[3].cumulative_excess = Some(Pounds(2400) * Scale)

\* the order of the stages as the code runs them
CodeOrder ==
    <<"Income Aggregator", "Reconciler", "Regime Classifier", "Decile Assigner",
      "Savings Estimator", "Baseline/Excess", "National Scaler",
      "Time-Series Aggregator">>

\* the order of the stages with the aggregator after the union and the scaler last
UnionFirstScalerLastOrder ==
    <<"Reconciler", "Income Aggregator", "Regime Classifier", "Decile Assigner",
      "Savings Estimator", "Baseline/Excess", "Time-Series Aggregator",
      "National Scaler">>

\* the position of a stage in an order
RankIn(order, stage) == CHOOSE k \in DOMAIN order : order[k] = stage

\* no stage has run before a stage that the order puts ahead of it (each
\* stage ranks at least as high as the one that ran just before it), and a
\* finished run has run every stage
RunsInOrder(order) ==
    /\ \A i \in 1..(Len(stages) - 1) :
          RankIn(order, stages[i]) <= RankIn(order, stages[i + 1])
    /\ pc = "done" => Range(stages) = Range(order)

\* C16 as stated: the stages of a run execute in the order Reconciler, Income
\* Aggregator, Regime Classifier, Decile Assigner, Savings Estimator,
\* Baseline/Excess, Time-Series Aggregator, National Scaler.
C16_StagesUnionFirstScalerLast == RunsInOrder(UnionFirstScalerLastOrder)

\* C16: the stages of a run execute in the order Income Aggregator (on each
\* sheet's table as it is loaded), Reconciler, Regime Classifier, Decile
\* Assigner, Savings Estimator, Baseline/Excess, National Scaler, Time-Series
\* Aggregator: the stages run so far are one Income Aggregator per loaded
\* sheet followed by the first of the other seven, in that order; a finished
\* run has run all of them; the union exists only after every aggregation,
\* and the yearly table only after the scaler has reported.
C16_StagesInCodeOrder ==
    /\ stages = [i \in 1..Len(all_data) |-> "Income Aggregator"]
                  \o SubSeq(Tail(CodeOrder), 1, Len(stages) - Len(all_data))
    /\ pc = "done" => Range(stages) = Range(CodeOrder)
    /\ nmg # <<>> => "Reconciler" \in Range(stages)
    /\ yearly # <<>> => scale_report # NULL

\* a finished run of two loaded sheets
C16_Witness ==
    /\ pc = "done"
    /\ Len(all_data) = 2
    /\ stages = <<"Income Aggregator">> \o CodeOrder

\* C17: the yearly table of a finished run has a row for every survey_year of
\* the panel and for no other year, and its years are strictly ascending, so
\* each year has exactly one row; the rows of March 2025 and September 2025
\* share the one row of 2025.
C17_OneRowPerYearAscending ==
    pc = "done" =>
        /\ {yearly[k].survey_year : k \in DOMAIN yearly} =
              {nmg[i].survey_year : i \in DOMAIN nmg}
        /\ \A j, k \in DOMAIN yearly :
              j < k => yearly[j].survey_year < yearly[k].survey_year
        /\ \A i \in DOMAIN nmg :
              nmg[i].survey_wave \in {"March 2025", "September 2025"} =>
                 Cardinality({k \in DOMAIN yearly : yearly[k].survey_year = 2025}) = 1

\* a finished run with rows of both sub-waves of 2025 and of an earlier year
C17_Witness ==
    /\ pc = "done"
    /\ \E i \in DOMAIN nmg : nmg[i].survey_wave = "March 2025"
    /\ \E i \in DOMAIN nmg : nmg[i].survey_wave = "September 2025"
    /\ \E i \in DOMAIN nmg : nmg[i].survey_year < 2025
    /\ Len(yearly) = 2
    /\ yearly[2].survey_year = 2025
    /\ yearly[2].n_households = 2

\* the panel rows of a year, and those of them with a value in a column
YearIdx(y) == {i \in DOMAIN nmg : nmg[i].survey_year = y}

ValuedIdx(y, col) == {i \in YearIdx(y) : nmg[i][col] # NULL}

\* the mean of a column over the rows of a year that have a value, times Scale
MeanOfValued(y, col) ==
    IF ValuedIdx(y, col) = {} THEN NULL
    ELSE Some((Scale * SumAt([i \in ValuedIdx(y, col) |-> nmg[i][col][1]],
                             ValuedIdx(y, col)))
              \div Cardinality(ValuedIdx(y, col)))

\* C18: in every yearly row of a finished run, n_households is the number of
\* panel rows of the year (null income included), n_with_income the number of
\* them with a non-null gross_income, the n_households of all rows sum to the
\* panel's row count, and avg_income, avg_savings and avg_excess_savings are
\* the means of the non-null values of the year, null when there is none.
C18_CountsAndMeansPerYear ==
    pc = "done" =>
        /\ \A k \in DOMAIN yearly :
              LET y == yearly[k].survey_year
              IN  /\ yearly[k].n_households = Cardinality(YearIdx(y))
                  /\ yearly[k].n_with_income = Cardinality(ValuedIdx(y, "gross_income"))
                  /\ yearly[k].n_with_income <= yearly[k].n_households
                  /\ yearly[k].avg_income = MeanOfValued(y, "gross_income")
                  /\ yearly[k].avg_savings = MeanOfValued(y, "estimated_savings")
                  /\ yearly[k].avg_excess_savings = MeanOfValued(y, "excess_savings")
        /\ SeqSum([k \in DOMAIN yearly |-> yearly[k].n_households]) = Len(nmg)

\* a year with one household without income and one with income 20,000, and
\* a year whose households all lack income
C18_Witness ==
    /\ pc = "done"
    /\ \E k \in DOMAIN yearly :
          /\ yearly[k].n_households = 2
          /\ yearly[k].n_with_income = 1
          /\ yearly[k].avg_income = Some(Scale * 20000)
    /\ \E k \in DOMAIN yearly :
          /\ yearly[k].n_households = 1
          /\ yearly[k].n_with_income = 0
          /\ yearly[k].avg_income = NULL
          /\ yearly[k].avg_excess_savings = NULL

\* C19: in the yearly table of a finished run, of two rows with non-null
\* cumulative_excess the one of the later year has the larger or equal value.
C19_CumulativeNonDecreasing ==
    pc = "done" =>
        \A j, k \in DOMAIN yearly :
            (/\ yearly[j].survey_year < yearly[k].survey_year
             /\ yearly[j].cumulative_excess # NULL
             /\ yearly[k].cumulative_excess # NULL)
            => yearly[j].cumulative_excess[1] <= yearly[k].cumulative_excess[1]

\* a year whose households saved less than the baseline follows a year with a
\* positive excess: the running total stays where it was
C19_Witness ==
    /\ pc = "done"
    /\ \E j, k \in DOMAIN yearly :
          /\ j < k
          /\ yearly[j].cumulative_excess # NULL
          /\ yearly[j].cumulative_excess[1] > 0
          /\ yearly[k].avg_savings # NULL
          /\ yearly[k].avg_savings[1] < baseline_savings[1]
          /\ yearly[k].cumulative_excess = yearly[j].cumulative_excess

\* C20: a second run of the pipeline on the same workbook ends with the same
\* canonical table and the same yearly table as the first run returned.
C20_SecondRunSameTables ==
    (returned # <<>> /\ pc = "done") =>
        /\ nmg = returned[1].nmg
        /\ yearly = returned[1].yearly

\* a second run has finished on a workbook with a failing sheet and loaded
\* sheets on both sides of 2020
C20_Witness ==
    /\ returned # <<>>
    /\ pc = "done"
    /\ warnings # <<>>
    /\ Len(all_data) >= 2
    /\ Len(yearly) >= 2
    /\ \E k \in DOMAIN yearly : yearly[k].cumulative_excess # NULL
                                 /\ yearly[k].cumulative_excess[1] > 0

\* C21: sum_income_sources never mutates the frame it is handed: when the call
\* returns, the frame passed in has the columns and the values it had before
\* the call.
C21_InputFrameUnchanged ==
    [][(pc = "call" /\ pc' = "returned") => df_pandas' = df_pandas]_vars

\* rows of the panel whose gross_income is not null
IncomeIdx == {i \in DOMAIN nmg : nmg[i].gross_income # NULL}

\* C22: deciles are global and follow the order of incomes: income_decile is
\* null exactly where gross_income is null; every other row is cut by the one
\* set of breaks computed from the non-null incomes of the whole panel and gets
\* a label 1..10; and of two rows with incomes a <= b, of whatever periods, the
\* first never has the higher decile.
C22_DecilesGlobalAndOrdered ==
    pc = "assigned" =>
        /\ \A i \in DOMAIN nmg :
              (nmg[i].income_decile = NULL) <=> (nmg[i].gross_income = NULL)
        /\ IncomeIdx # {} =>
             \A q \in {qbreaks(DropNulls(nmg, "gross_income"))} :
             \A i \in IncomeIdx :
                /\ Val(nmg[i].income_decile) \in 1..10
                /\ Val(nmg[i].income_decile) = DecileOf(Val(nmg[i].gross_income), q)
        /\ \A i, j \in IncomeIdx :
              Val(nmg[i].gross_income) <= Val(nmg[j].gross_income)
                 => Val(nmg[i].income_decile) <= Val(nmg[j].income_decile)

\* a panel with a null income and two periods: the lower income of one period
\* got a lower decile than the higher income of the other, and equal incomes
\* of different periods got equal deciles
C22_Witness ==
    /\ pc = "assigned"
    /\ \E i \in DOMAIN nmg : nmg[i].gross_income = NULL /\ nmg[i].income_decile = NULL
    /\ \E i, j \in IncomeIdx :
          /\ nmg[i].survey_wave # nmg[j].survey_wave
          /\ Val(nmg[i].gross_income) < Val(nmg[j].gross_income)
          /\ Val(nmg[i].income_decile) < Val(nmg[j].income_decile)

\* rows of the panel labelled with decile d
RowsOfDecile(d) == {i \in IncomeIdx : nmg[i].income_decile = Some(d)}

\* the non-null incomes of the panel are pairwise distinct
DistinctIncomes ==
    \A i, j \in IncomeIdx : i # j => nmg[i].gross_income # nmg[j].gross_income

\* C23: with N non-null, pairwise distinct incomes every decile 1..10 holds
\* between floor(N/10) and ceil(N/10) rows; and whether incomes repeat or not
\* the assignment does not fail: every row with an income gets a decile.
C23_DecileSizes ==
    /\ pc # "failed"
    /\ pc = "assigned" =>
          /\ \A i \in IncomeIdx : nmg[i].income_decile # NULL
          /\ DistinctIncomes =>
                \A n \in {Cardinality(IncomeIdx)} :
                \A d \in 1..10 :
                   \A size \in {Cardinality(RowsOfDecile(d))} :
                      /\ n \div 10 <= size
                      /\ size <= (n + 9) \div 10

\* eleven distinct incomes: some decile holds two rows and the others one
C23_Witness ==
    /\ pc = "assigned"
    /\ DistinctIncomes
    /\ Cardinality(IncomeIdx) = 11
    /\ \E d \in 1..10 : Cardinality(RowsOfDecile(d)) = 2
    /\ \E d \in 1..10 : Cardinality(RowsOfDecile(d)) = 1

\* the year a sheet stands for: the sheets of year_sheets are the years from
\* 2011 on, one sheet a year, and then the two sub-waves of 2025
YearOfSheetIndex(k) == IF k >= 15 THEN 2025 ELSE 2010 + k

\* rows of the panel that carry the name of sheet k as their survey_wave
PanelIdxOfSheet(k) == {i \in DOMAIN nmg : nmg[i].survey_wave = year_sheets[k]}

\* C24: a row read from "March 2025" or "September 2025" has survey_year 2025,
\* a row read from any other sheet has the number its sheet name spells, and
\* in both cases survey_wave is the sheet name; the loaded frames are those of
\* the sheets that could be read; and a panel that is built holds, for every
\* such sheet, the two 2025 sub-waves included, as many rows of that wave as
\* the sheet had.
C24_SubWavesShareYear ==
    /\ Len(all_data) = Cardinality({k \in DOMAIN workbook : workbook[k] # NULL})
    /\ \A f \in DOMAIN all_data :
          \A k \in {SheetIndex(all_data[f].rows[1]["survey_wave"])} :
             /\ workbook[k] # NULL
             /\ Len(all_data[f].rows) = Len(Val(workbook[k]).rows)
             /\ \A i \in DOMAIN all_data[f].rows :
                   /\ all_data[f].rows[i]["survey_wave"] = year_sheets[k]
                   /\ all_data[f].rows[i]["survey_year"] = YearOfSheetIndex(k)
             /\ (LoadingOver /\ pc # "failed") =>
                   \A panel_rows \in {PanelIdxOfSheet(k)} :
                      /\ Cardinality(panel_rows) = Len(Val(workbook[k]).rows)
                      /\ \A i \in panel_rows :
                            nmg[i].survey_year = YearOfSheetIndex(k)

\* a finished run whose panel holds a row of each sub-wave of 2025, both under
\* 2025 and in one row of the yearly table, and a row of an earlier year
C24_Witness ==
    /\ pc = "done"
    /\ \E i, j, h \in DOMAIN nmg :
          /\ nmg[i].survey_wave = "March 2025" /\ nmg[i].survey_year = 2025
          /\ nmg[j].survey_wave = "September 2025" /\ nmg[j].survey_year = 2025
          /\ nmg[h].survey_wave = "2019" /\ nmg[h].survey_year = 2019
    /\ \E k \in DOMAIN yearly : yearly[k].survey_year = 2025 /\ yearly[k].n_households = 2

\* the columns of the panel: the canonical ones and those derived from them
PanelColumns ==
    {"household_id", "survey_year", "survey_wave", "gross_income",
     "pandemic_period", "post_2020", "pre_pandemic", "income_decile",
     "estimated_savings", "baseline_savings", "excess_savings"}

\* C25: once at least one sheet is loaded the run does not abort, whichever
\* canonical columns the loaded sheets lack, 'subsid' in some or in all of them
\* included; the panel has no column of a raw sheet besides the canonical ones;
\* and a row of a sheet without 'subsid' has a null household identifier.
C25_AbsentColumnsAreNull ==
    (LoadingOver /\ all_data # <<>>) =>
        /\ pc # "failed"
        /\ Len(nmg) = Len(LoadedRows)
        /\ \A i \in DOMAIN nmg :
              /\ DOMAIN nmg[i] \subseteq PanelColumns
              /\ "subsid" \notin DOMAIN LoadedRows[i] => nmg[i].household_id = NULL
              /\ "subsid" \in DOMAIN LoadedRows[i]
                    => nmg[i].household_id = LoadedRows[i]["subsid"]

\* the coverage rate in the statistics of either script
CoverageOf(app, stats) ==
    IF app = "new_revised" THEN stats.data_quality.coverage_rate ELSE stats.coverage_pct

\* C26: calculate_statistics and get_key_stats never raise, whichever of the
\* windows 2016-2019, 2020-2021 and 2022 on has no yearly row or only null
\* avg_savings; and for a household file without rows the coverage rate they
\* return is 0.
C26_StatsHandleNulls ==
    dash # NULL =>
        /\ dash.stats = NULL => pc = "dash_stats"
        /\ (dash.stats # NULL /\ PanelLen(dash.df_panel) = 0)
              => CoverageOf(dash.app, Val(dash.stats)) = Frac(0, 1)

\* the decile analysis has run and returned None
DecilesInsufficient ==
    /\ dash # NULL
    /\ dash.stats # NULL
    /\ pc # "dash_deciles"
    /\ dash.decile_stats = NULL

\* C27: when the decile analysis returns None, no run of main ends with the
\* NameError of a name that only the decile branch assigns, and a run that has
\* rendered the time-series tab goes on to render every other tab, the export
\* tab with its summary included, without raising.
C27_InsufficientDecilesStillRender ==
    DecilesInsufficient =>
        /\ dash.error # Some("NameError")
        /\ "tab1" \in Range(dash.rendered) => pc # "dash_raised"
        /\ pc = "dash_done" => dash.rendered = <<"tab1", "tab2", "tab3", "tab4">>

\* the labels of the rows of a decile table
LabelsOf(rows) == {rows[k].income_decile : k \in DOMAIN rows}

\* C28: in the decile summary the bottom group is exactly the rows of the
\* decile table labelled D1, D2 and D3, the top group exactly those labelled
\* D8, D9 and D10, and no row is in both groups.
C28_BottomAndTopGroups ==
    (dash # NULL /\ dash.bottom_3 # NULL) =>
        /\ LabelsOf(dash.bottom_rows) =
              LabelsOf(Val(dash.decile_stats)) \cap {DecileLabel(i) : i \in 1..3}
        /\ LabelsOf(dash.top_rows) =
              LabelsOf(Val(dash.decile_stats)) \cap {DecileLabel(i) : i \in 8..10}
        /\ LabelsOf(dash.bottom_rows) \cap LabelsOf(dash.top_rows) = {}
====
